---- MODULE Spec2Model ----
(***************************************************************************)
(* Model of ludwig/schema/__init__.py: the memoized schema assembler       *)
(* get_schema, the memoized validator factory get_validator and the        *)
(* validation pipeline validate_config, run by several threads of one      *)
(* process.                                                                *)
(***************************************************************************)
EXTENDS Integers, Sequences, FiniteSets, TLC

(* ------------------------------ bounds -------------------------------- *)
\* the threads of the process
NumThreads == 2
\* the calls of validate_config a run starts
MaxCalls == 2
\* the direct calls of get_schema a run starts
MaxSchemaCalls == 3
\* the threads that call get_schema for one model type at the same time
NumCallers == 3

Threads == 1..NumThreads
Callers == 1..NumCallers
NoThread == 0

(* ------------------------- program constants -------------------------- *)
MODEL_ECD == "ecd"
MODEL_GBM == "gbm"
MODEL_TYPE == "model_type"
INPUT_FEATURES == "input_features"
OUTPUT_FEATURES == "output_features"
COMBINER == "combiner"
TRAINER == "trainer"
PREPROCESSING == "preprocessing"
HYPEROPT == "hyperopt"
DEFAULTS == "defaults"

\* @lru_cache(maxsize=2) on get_schema and on get_validator
maxsize == 2

\* the semantic checks of validate_config, in the order of their calls
checks ==
  << "check_validation_metrics_are_valid",
     "check_feature_names_unique",
     "check_tied_features_are_valid",
     "check_dependent_features",
     "check_training_runway",
     "check_gbm_horovod_incompatibility",
     "check_gbm_feature_types",
     "check_ray_backend_in_memory_preprocessing",
     "check_sequence_concat_combiner_requirements",
     "check_tabtransformer_combiner_requirements",
     "check_comparator_combiner_requirements",
     "check_class_balance_preprocessing",
     "check_sampling_exclusivity",
     "check_hyperopt_search_space",
     "check_hyperopt_metric_targets",
     "check_gbm_single_output_feature" >>

NumChecks == Len(checks)

(* ------------------------------ values -------------------------------- *)
Absent == "absent"

\* an exception in flight (or none); check is the index of the raising
\* semantic check, 0 for every other kind
NoExc == [kind |-> "none", check |-> 0]
Exc(kind) == [kind |-> kind, check |-> 0]
SemanticCheckError(k) == [kind |-> "SemanticCheckError", check |-> k]

\* Configuration documents.  version: the historical shape of the document;
\* model_type: the value under the model_type key (Absent: no such key);
\* split: the preprocessing.split section; input_features/output_features:
\* the Python type of the value under that key (Absent: no such key);
\* sem: the semantic checks (by position) whose rule the document breaks.
Versions == {"current", "legacy", "malformed"}
ModelTypes == {MODEL_ECD, MODEL_GBM, "unknown"}
Splits == {"ok", "unknown_type", "bad_params"}
SemCases == {{}, {1}, {NumChecks}, {2, 3}, {5, 12}}

Doc(v, mt, sp, inf, outf, sem) ==
  [version |-> v, model_type |-> mt, split |-> sp,
   input_features |-> inf, output_features |-> outf, sem |-> sem]

AllDocs ==
  { Doc(v, mt, sp, inf, outf, sem) :
      v \in Versions, mt \in ModelTypes \cup {Absent}, sp \in Splits,
      inf \in {"list", Absent}, outf \in {"list", "tuple", "str", Absent},
      sem \in SemCases }

NoDoc == Doc("none", Absent, "ok", Absent, Absent, {})

\* the documents the concurrent callers validate: one without model_type
\* that fails two semantic checks, an acceptable legacy one, one with a
\* structural and a semantic violation, one of an unregistered model type
ConcDocs ==
  { Doc("current", Absent, "ok", "list", "list", {2, 3}),
    Doc("legacy", MODEL_GBM, "ok", "list", "tuple", {}),
    Doc("current", MODEL_ECD, "ok", "list", Absent, {1}),
    Doc("current", "unknown", "ok", "list", "list", {}) }

(* ------------------- functools.lru_cache(maxsize) --------------------- *)
\* A cache is the sequence of its links, least recently used first; a link
\* is [key, result].
make_key(args, kwds) == [args |-> args, kwds |-> kwds]

cache_keys(cache) == { cache[i].key : i \in DOMAIN cache }

cache_has(cache, key) == key \in cache_keys(cache)

\* Variant of cache_result: the key is not compared, the result of the most
\* recently used link is returned.
cache_result_newest(cache, key) == cache[Len(cache)].result

\* the result memoized for the key
cache_result(cache, key) ==
  cache[CHOOSE i \in DOMAIN cache : cache[i].key = key].result

\* Variant of cache_hit: a hit leaves the order of the links as it is
\* (first in, first out).
cache_hit_fifo(cache, key) == cache

\* a hit moves the link to the most recently used end
cache_hit(cache, key) ==
  LET link == cache[CHOOSE i \in DOMAIN cache : cache[i].key = key]
      IsOther(e) == e.key # key
  IN  Append(SelectSeq(cache, IsOther), link)

\* Variant of cache_store: the result is stored without a look whether the
\* key was added meanwhile.
cache_store_unchecked(cache, key, result) ==
  IF Len(cache) < maxsize THEN Append(cache, [key |-> key, result |-> result])
  ELSE Append(Tail(cache), [key |-> key, result |-> result])

\* after the wrapped function returned: the key may have been added by
\* another caller meanwhile (nothing to do); a cache that is not full gets
\* a new link; a full cache loses its oldest link
cache_store(cache, key, result) ==
  IF cache_has(cache, key) THEN cache
  ELSE IF Len(cache) < maxsize THEN Append(cache, [key |-> key, result |-> result])
  ELSE Append(Tail(cache), [key |-> key, result |-> result])

(* --------------------------- get_schema ------------------------------- *)
\* the three ways of calling get_schema(model_type: str = MODEL_ECD)
CallDefault == make_key(<<>>, <<>>)
CallPositional(mt) == make_key(<<mt>>, <<>>)
CallKeyword(mt) == make_key(<<>>, <<MODEL_TYPE, mt>>)

SchemaCalls ==
  {CallDefault} \cup { CallPositional(mt) : mt \in ModelTypes }
                \cup { CallKeyword(mt) : mt \in ModelTypes }

\* the value bound to the parameter model_type by a call
bound_model_type(call) ==
  IF call.args # <<>> THEN call.args[1]
  ELSE IF call.kwds # <<>> THEN call.kwds[2]
  ELSE MODEL_ECD

\* the model types that have a trainer schema
trainer_schema_registry == {MODEL_ECD, MODEL_GBM}

Fragment(type, title) == [type |-> type, title |-> title]

get_model_type_jsonschema == Fragment("string", MODEL_TYPE)
get_input_feature_jsonschema == Fragment("array", INPUT_FEATURES)
get_output_feature_jsonschema == Fragment("array", OUTPUT_FEATURES)
get_combiner_jsonschema == Fragment("object", COMBINER)
get_trainer_jsonschema(model_type) == Fragment("object", model_type)
get_trainer_jsonschema_raises(model_type) == model_type \notin trainer_schema_registry
get_preprocessing_jsonschema == Fragment("object", PREPROCESSING)
get_hyperopt_jsonschema == Fragment("object", HYPEROPT)
get_defaults_jsonschema == Fragment("object", DEFAULTS)

TopLevelKeys ==
  {MODEL_TYPE, INPUT_FEATURES, OUTPUT_FEATURES, COMBINER, TRAINER,
   PREPROCESSING, HYPEROPT, DEFAULTS}

\* the body of get_schema
get_schema_raises(model_type) == get_trainer_jsonschema_raises(model_type)

get_schema(model_type) ==
  [type |-> "object",
   properties |->
     [k \in TopLevelKeys |->
        CASE k = MODEL_TYPE -> get_model_type_jsonschema
          [] k = INPUT_FEATURES -> get_input_feature_jsonschema
          [] k = OUTPUT_FEATURES -> get_output_feature_jsonschema
          [] k = COMBINER -> get_combiner_jsonschema
          [] k = TRAINER -> get_trainer_jsonschema(model_type)
          [] k = PREPROCESSING -> get_preprocessing_jsonschema
          [] k = HYPEROPT -> get_hyperopt_jsonschema
          [] k = DEFAULTS -> get_defaults_jsonschema],
   definitions |-> {},
   required |-> <<INPUT_FEATURES, OUTPUT_FEATURES>>]

NoSchema == [type |-> "none"]

(* -------------------------- get_validator ----------------------------- *)
\* Variant of custom_is_array: the array type of Draft 7, a list only.
custom_is_array_list_only(instance) == instance = "list"

\* isinstance(instance, list) or isinstance(instance, tuple); an instance is
\* modelled by its Python type
custom_is_array(instance) == instance = "list" \/ instance = "tuple"

\* Draft7Validator.TYPE_CHECKER
draft7_is_type(instance, type) ==
  CASE type = "array" -> instance = "list"
    [] type = "string" -> instance = "str"
    [] type = "object" -> instance = "dict"
    [] OTHER -> FALSE

\* the class made by extend(Draft7Validator, type_checker=...); n tells the
\* classes apart
get_validator(n) ==
  [base |-> "Draft7Validator", array |-> "custom_is_array", class |-> n]

NoValidator == [base |-> "none", array |-> "none", class |-> 0]

is_type(cls, instance, type) ==
  IF type = "array" /\ cls.array = "custom_is_array"
  THEN custom_is_array(instance)
  ELSE draft7_is_type(instance, type)

(* ----------------------- jsonschema.validate -------------------------- *)
\* the Python type of the value under a top-level key of a document
py_type(instance, key) ==
  IF key = MODEL_TYPE THEN "str" ELSE instance[key]

has_key(instance, key) == instance[key] # Absent

DocumentKeys == {MODEL_TYPE, INPUT_FEATURES, OUTPUT_FEATURES}

\* the errors iter_errors finds: a required key that is missing, a value
\* that is not of the type its property asks for
validate_errors(instance, schema, cls) ==
  { <<"required", schema.required[i]>> :
      i \in { j \in DOMAIN schema.required : ~has_key(instance, schema.required[j]) } }
  \cup
  { <<"type", k>> :
      k \in { q \in DocumentKeys \cap DOMAIN schema.properties :
                /\ has_key(instance, q)
                /\ ~is_type(cls, py_type(instance, q), schema.properties[q].type) } }

validate(instance, schema, cls) ==
  IF validate_errors(instance, schema, cls) # {} THEN Exc("ValidationError") ELSE NoExc

(* --------------------- collaborators of validate_config --------------- *)
upgrade_raises(config) == config.version = "malformed"
upgrade_config_dict_to_latest_version(config) == [config EXCEPT !.version = "current"]

get_splitter_raises(updated_config) == updated_config.split = "unknown_type"
splitter_validate_raises(updated_config) == updated_config.split = "bad_params"

\* the k-th semantic check raises on a document that breaks its rule
check_raises(k, updated_config) == k \in updated_config.sem

(* ------------------------------ state --------------------------------- *)
VARIABLES
  VALIDATION_LOCK,   \* the thread holding the lock, or NoThread
  schema_cache,      \* the lru_cache of get_schema
  validator_cache,   \* the lru_cache of get_validator
  extended,          \* the number of classes extend() has made
  frame,             \* per thread: the locals of the call it is running
  requested,         \* the registered model types last asked of get_schema
  touched,           \* the keys of get_schema's cache, in the order of their last use
  ncalls             \* the calls started so far

vars ==
  <<VALIDATION_LOCK, schema_cache, validator_cache, extended, frame,
    requested, touched, ncalls>>

\* the frame of a thread that runs no call.  config is the caller's document
\* as it is now, original what it was when the call began; handed tells
\* which document each stage has been given, as pairs <<stage, document>>
Idle ==
  [pc |-> "idle", op |-> "none", config |-> NoDoc, original |-> NoDoc,
   handed |-> {}, updated_config |-> NoDoc,
   model_type |-> Absent, call |-> CallDefault, seen |-> {}, schema |-> NoSchema,
   cls |-> NoValidator, exc |-> NoExc, invoked |-> <<>>, log |-> <<>>,
   result |-> NoExc]

Returned == Exc("returned")

Init ==
  /\ VALIDATION_LOCK = NoThread
  /\ schema_cache = <<>>
  /\ validator_cache = <<>>
  /\ extended = 0
  /\ frame = [t \in Threads |-> Idle]
  /\ requested = <<>>
  /\ touched = <<>>
  /\ ncalls = 0

\* the thread's frame after a step: new program counter, one more log entry
Step(t, pc, event) ==
  [frame[t] EXCEPT !.pc = pc, !.log = Append(@, event)]

\* the stage is called with the document
Hand(f, stage, doc) == [f EXCEPT !.handed = @ \cup {<<stage, doc>>}]

\* an exception leaves the call: the frame keeps it as the call's result
Raise(f, exc) == [f EXCEPT !.pc = "done", !.exc = exc, !.result = exc]

\* a key was used: it becomes the last of the keys in the order of their use
Touch(seq, key) ==
  LET IsOther(k) == k # key
  IN  Append(SelectSeq(seq, IsOther), key)

\* the last (up to two) distinct registered model types asked for, oldest first
Request(seq, mt) ==
  IF mt \notin trainer_schema_registry THEN seq
  ELSE LET IsOther(m) == m # mt
           rest == SelectSeq(seq, IsOther)
       IN  Append(IF Len(rest) >= maxsize THEN Tail(rest) ELSE rest, mt)

(* --------------------------- validate_config -------------------------- *)
\* a thread calls validate_config(config)
validate_config(t, docs) ==
  /\ frame[t].pc = "idle"
  /\ ncalls < MaxCalls
  /\ \E config \in docs :
       frame' = [frame EXCEPT ![t] =
                   [Idle EXCEPT !.pc = "upgrade", !.op = "validate_config",
                                !.config = config, !.original = config]]
  /\ ncalls' = ncalls + 1
  /\ UNCHANGED <<VALIDATION_LOCK, schema_cache, validator_cache, extended, requested, touched>>

\* Variant of upgrade: a document that cannot be upgraded is validated as it is.
upgrade_lenient(t) ==
  /\ frame[t].pc = "upgrade"
  /\ LET f == Hand(Step(t, "get_splitter", "upgrade"), "upgrade", frame[t].config)
         updated_config == IF upgrade_raises(f.config) THEN f.config
                           ELSE upgrade_config_dict_to_latest_version(f.config)
     IN  frame' = [frame EXCEPT ![t] =
           [Hand(f, "model_type", updated_config) EXCEPT
                     !.updated_config = updated_config,
                     !.model_type =
                        IF has_key(updated_config, MODEL_TYPE)
                        THEN updated_config[MODEL_TYPE] ELSE MODEL_ECD]]
  /\ UNCHANGED <<VALIDATION_LOCK, schema_cache, validator_cache, extended,
                 requested, touched, ncalls>>

\* updated_config = upgrade_config_dict_to_latest_version(config)
\* model_type = updated_config.get(MODEL_TYPE, MODEL_ECD)
upgrade(t) ==
  /\ frame[t].pc = "upgrade"
  /\ LET f == Hand(Step(t, "get_splitter", "upgrade"), "upgrade", frame[t].config)
         updated_config == upgrade_config_dict_to_latest_version(f.config)
     IN  frame' = [frame EXCEPT ![t] =
           IF upgrade_raises(f.config) THEN Raise(f, Exc("UpgradeError"))
           ELSE [Hand(f, "model_type", updated_config) EXCEPT
                          !.updated_config = updated_config,
                          !.model_type =
                             IF has_key(updated_config, MODEL_TYPE)
                             THEN updated_config[MODEL_TYPE] ELSE MODEL_ECD]]
  /\ UNCHANGED <<VALIDATION_LOCK, schema_cache, validator_cache, extended,
                 requested, touched, ncalls>>

\* splitter = get_splitter(**updated_config.get(PREPROCESSING, {}).get(SPLIT, {}))
get_splitter(t) ==
  /\ frame[t].pc = "get_splitter"
  /\ LET f == Hand(Step(t, "splitter.validate", "get_splitter"),
                    "get_splitter", frame[t].updated_config)
     IN  frame' = [frame EXCEPT ![t] =
           IF get_splitter_raises(f.updated_config)
           THEN Raise(f, Exc("SplitConfigError")) ELSE f]
  /\ UNCHANGED <<VALIDATION_LOCK, schema_cache, validator_cache, extended,
                 requested, touched, ncalls>>

\* Variant of splitter_validate: the splitter's verdict is not raised.
splitter_validate_lenient(t) ==
  /\ frame[t].pc = "splitter.validate"
  /\ frame' = [frame EXCEPT ![t] =
       Hand(Step(t, "acquire", "splitter.validate"),
            "splitter.validate", frame[t].updated_config)]
  /\ UNCHANGED <<VALIDATION_LOCK, schema_cache, validator_cache, extended,
                 requested, touched, ncalls>>

\* Variant of splitter_validate: the with block opened one statement early,
\* so that split validation runs under the lock.
splitter_validate_in_with(t) ==
  /\ frame[t].pc = "splitter.validate"
  /\ VALIDATION_LOCK = NoThread
  /\ VALIDATION_LOCK' = t
  /\ LET f == [Hand(frame[t], "splitter.validate", frame[t].updated_config) EXCEPT
                 !.pc = "get_schema",
                 !.log = @ \o <<"acquire", "splitter.validate">>,
                 !.call = CallKeyword(frame[t].model_type)]
     IN  frame' = [frame EXCEPT ![t] =
           IF splitter_validate_raises(f.updated_config)
           THEN [f EXCEPT !.pc = "release", !.exc = Exc("SplitConfigError")]
           ELSE f]
  /\ UNCHANGED <<schema_cache, validator_cache, extended, requested, touched, ncalls>>

\* splitter.validate(updated_config)
splitter_validate(t) ==
  /\ frame[t].pc = "splitter.validate"
  /\ LET f == Hand(Step(t, "acquire", "splitter.validate"),
                    "splitter.validate", frame[t].updated_config)
     IN  frame' = [frame EXCEPT ![t] =
           IF splitter_validate_raises(f.updated_config)
           THEN Raise(f, Exc("SplitConfigError")) ELSE f]
  /\ UNCHANGED <<VALIDATION_LOCK, schema_cache, validator_cache, extended,
                 requested, touched, ncalls>>

\* Variant of acquire: the thread does not wait for the lock to be free.
acquire_nowait(t) ==
  /\ frame[t].pc = "acquire"
  /\ VALIDATION_LOCK' = t
  /\ frame' = [frame EXCEPT ![t] =
       [Step(t, "get_schema", "acquire") EXCEPT
          !.call = CallKeyword(frame[t].model_type)]]
  /\ UNCHANGED <<schema_cache, validator_cache, extended, requested, touched, ncalls>>

\* Variant of acquire: get_schema() is called without the model type.
acquire_default_schema(t) ==
  /\ frame[t].pc = "acquire"
  /\ VALIDATION_LOCK = NoThread
  /\ VALIDATION_LOCK' = t
  /\ frame' = [frame EXCEPT ![t] =
       [Step(t, "get_schema", "acquire") EXCEPT !.call = CallDefault]]
  /\ UNCHANGED <<schema_cache, validator_cache, extended, requested, touched, ncalls>>

\* with VALIDATION_LOCK: (entry) the thread waits until the lock is free;
\* the first argument evaluated under the lock is get_schema(model_type=model_type)
acquire(t) ==
  /\ frame[t].pc = "acquire"
  /\ VALIDATION_LOCK = NoThread
  /\ VALIDATION_LOCK' = t
  /\ frame' = [frame EXCEPT ![t] =
       [Step(t, "get_schema", "acquire") EXCEPT
          !.call = CallKeyword(frame[t].model_type)]]
  /\ UNCHANGED <<schema_cache, validator_cache, extended, requested, touched, ncalls>>

(* ------------------ get_schema behind its lru_cache ------------------- *)
\* a call of get_schema is over: validate_config goes on to evaluate
\* get_validator(), a direct caller has its schema
schema_returned(f) ==
  IF f.op = "validate_config" THEN [f EXCEPT !.pc = "get_validator"]
  ELSE [f EXCEPT !.pc = "done", !.result = Returned]

\* an exception leaves get_schema: inside validate_config it leaves the
\* with block through the lock's __exit__
schema_raised(f, exc) ==
  IF f.op = "validate_config" THEN [f EXCEPT !.pc = "release", !.exc = exc]
  ELSE Raise(f, exc)

\* a thread calls get_schema itself, in one of the three ways
get_schema_call(t) ==
  /\ frame[t].pc = "idle"
  /\ ncalls < MaxSchemaCalls
  /\ \E call \in SchemaCalls :
       frame' = [frame EXCEPT ![t] =
                   [Idle EXCEPT !.pc = "get_schema", !.op = "get_schema",
                                !.call = call]]
  /\ ncalls' = ncalls + 1
  /\ UNCHANGED <<VALIDATION_LOCK, schema_cache, validator_cache, extended, requested, touched>>

\* Variant of get_schema_wrapper: the key is not compared, whatever schema
\* was cached last answers the call.
get_schema_wrapper_keyless(t) ==
  /\ frame[t].pc = "get_schema"
  /\ LET key == frame[t].call
         seen == cache_keys(schema_cache)
     IN  /\ requested' = Request(requested, bound_model_type(key))
         /\ schema_cache' = schema_cache
         /\ touched' = touched
         /\ frame' = [frame EXCEPT ![t] =
              IF schema_cache # <<>>
              THEN schema_returned(
                     [Step(t, "get_schema", "schema.hit") EXCEPT
                        !.seen = seen,
                        !.schema = schema_cache[Len(schema_cache)].result])
              ELSE [Step(t, "get_schema.body", "schema.miss") EXCEPT
                      !.seen = seen]]
  /\ UNCHANGED <<VALIDATION_LOCK, validator_cache, extended, ncalls>>

\* the wrapper looks the key up: a hit returns the cached result and makes
\* the link the most recently used, a miss goes on to call the function
get_schema_wrapper(t) ==
  /\ frame[t].pc = "get_schema"
  /\ LET key == frame[t].call
         seen == cache_keys(schema_cache)
     IN  /\ requested' = Request(requested, bound_model_type(key))
         /\ IF cache_has(schema_cache, key)
            THEN /\ schema_cache' = cache_hit(schema_cache, key)
                 /\ touched' = Touch(touched, key)
                 /\ frame' = [frame EXCEPT ![t] =
                      schema_returned(
                        [Step(t, "get_schema", "schema.hit") EXCEPT
                           !.seen = seen,
                           !.schema = cache_result(schema_cache, key)])]
            ELSE /\ schema_cache' = schema_cache
                 /\ touched' = touched
                 /\ frame' = [frame EXCEPT ![t] =
                      [Step(t, "get_schema.body", "schema.miss") EXCEPT
                         !.seen = seen]]
  /\ UNCHANGED <<VALIDATION_LOCK, validator_cache, extended, ncalls>>

\* Variant of get_schema_body: a model type without a trainer schema gets
\* the schema of the default model type.
get_schema_body_fallback(t) ==
  /\ frame[t].pc = "get_schema.body"
  /\ LET model_type == bound_model_type(frame[t].call)
         f == Step(t, "get_schema.store", "schema.build")
     IN  frame' = [frame EXCEPT ![t] =
           [f EXCEPT !.schema = get_schema(IF get_schema_raises(model_type)
                                           THEN MODEL_ECD ELSE model_type)]]
  /\ UNCHANGED <<VALIDATION_LOCK, schema_cache, validator_cache, extended,
                 requested, touched, ncalls>>

\* Variant of get_schema_body: a failed build is remembered in the cache
\* under the key of the call.
get_schema_body_negative_cache(t) ==
  /\ frame[t].pc = "get_schema.body"
  /\ LET model_type == bound_model_type(frame[t].call)
         f == Step(t, "get_schema.store", "schema.build")
     IN  IF get_schema_raises(model_type)
         THEN /\ frame' = [frame EXCEPT ![t] =
                   schema_raised(f, Exc("SchemaAssemblyError"))]
              /\ schema_cache' = cache_store(schema_cache, frame[t].call, NoSchema)
         ELSE /\ frame' = [frame EXCEPT ![t] =
                   [f EXCEPT !.schema = get_schema(model_type)]]
              /\ schema_cache' = schema_cache
  /\ UNCHANGED <<VALIDATION_LOCK, validator_cache, extended,
                 requested, touched, ncalls>>

\* the function itself runs the fragment providers
get_schema_body(t) ==
  /\ frame[t].pc = "get_schema.body"
  /\ LET model_type == bound_model_type(frame[t].call)
         f == Step(t, "get_schema.store", "schema.build")
     IN  frame' = [frame EXCEPT ![t] =
           IF get_schema_raises(model_type)
           THEN schema_raised(f, Exc("SchemaAssemblyError"))
           ELSE [f EXCEPT !.schema = get_schema(model_type)]]
  /\ UNCHANGED <<VALIDATION_LOCK, schema_cache, validator_cache, extended,
                 requested, touched, ncalls>>

\* the wrapper stores the result and returns it
get_schema_store(t) ==
  /\ frame[t].pc = "get_schema.store"
  /\ LET key == frame[t].call
         event == IF cache_has(schema_cache, key) THEN "schema.present"
                  ELSE IF Len(schema_cache) < maxsize THEN "schema.store"
                  ELSE "schema.evict"
     IN  /\ schema_cache' = cache_store(schema_cache, key, frame[t].schema)
         /\ touched' = IF event = "schema.present" THEN touched ELSE Touch(touched, key)
         /\ frame' = [frame EXCEPT ![t] =
              schema_returned(Step(t, "get_schema.store", event))]
  /\ UNCHANGED <<VALIDATION_LOCK, validator_cache, extended, requested, ncalls>>

(* ----------------- get_validator behind its lru_cache ----------------- *)
validator_returned(f) ==
  IF f.op = "validate_config" THEN [f EXCEPT !.pc = "validate"]
  ELSE [f EXCEPT !.pc = "done", !.result = Returned]

\* a thread calls get_validator() itself
get_validator_call(t) ==
  /\ frame[t].pc = "idle"
  /\ ncalls < MaxCalls
  /\ frame' = [frame EXCEPT ![t] =
       [Idle EXCEPT !.pc = "get_validator", !.op = "get_validator"]]
  /\ ncalls' = ncalls + 1
  /\ UNCHANGED <<VALIDATION_LOCK, schema_cache, validator_cache, extended, requested, touched>>

\* Variant of get_validator_wrapper: get_validator without the decorator,
\* every call runs the function.
get_validator_wrapper_uncached(t) ==
  /\ frame[t].pc = "get_validator"
  /\ frame' = [frame EXCEPT ![t] =
       Step(t, "get_validator.body", "validator.miss")]
  /\ UNCHANGED <<VALIDATION_LOCK, schema_cache, validator_cache, extended,
                 requested, touched, ncalls>>

\* the wrapper looks the (empty) key up: a hit returns the cached class, a
\* miss goes on to call the function
get_validator_wrapper(t) ==
  /\ frame[t].pc = "get_validator"
  /\ LET key == make_key(<<>>, <<>>)
     IN  IF cache_has(validator_cache, key)
         THEN /\ validator_cache' = cache_hit(validator_cache, key)
              /\ frame' = [frame EXCEPT ![t] =
                   validator_returned(
                     [Step(t, "get_validator", "validator.hit") EXCEPT
                        !.cls = cache_result(validator_cache, key)])]
         ELSE /\ validator_cache' = validator_cache
              /\ frame' = [frame EXCEPT ![t] =
                   Step(t, "get_validator.body", "validator.miss")]
  /\ UNCHANGED <<VALIDATION_LOCK, schema_cache, extended, requested, touched, ncalls>>

\* extend(Draft7Validator, type_checker=type_checker) makes a new class
get_validator_body(t) ==
  /\ frame[t].pc = "get_validator.body"
  /\ extended' = extended + 1
  /\ frame' = [frame EXCEPT ![t] =
       [Step(t, "get_validator.store", "extend") EXCEPT
          !.cls = get_validator(extended + 1)]]
  /\ UNCHANGED <<VALIDATION_LOCK, schema_cache, validator_cache, requested, touched, ncalls>>

get_validator_store(t) ==
  /\ frame[t].pc = "get_validator.store"
  /\ validator_cache' = cache_store(validator_cache, make_key(<<>>, <<>>), frame[t].cls)
  /\ frame' = [frame EXCEPT ![t] =
       validator_returned(Step(t, "get_validator.store", "validator.store"))]
  /\ UNCHANGED <<VALIDATION_LOCK, schema_cache, extended, requested, touched, ncalls>>

(* -------------------- validate_config, continued ---------------------- *)
\* Variant of structural_validation: the document validated is the one the
\* caller passed, not the upgraded one.
structural_validation_raw(t) ==
  /\ frame[t].pc = "validate"
  /\ LET instance == frame[t].config
     IN  frame' = [frame EXCEPT ![t] =
           [Hand(Step(t, "release", "validate"), "validate", instance) EXCEPT
              !.exc = validate(instance, frame[t].schema, frame[t].cls)]]
  /\ UNCHANGED <<VALIDATION_LOCK, schema_cache, validator_cache, extended,
                 requested, touched, ncalls>>

\* validate(instance=updated_config, schema=..., cls=...)
structural_validation(t) ==
  /\ frame[t].pc = "validate"
  /\ LET instance == frame[t].updated_config
     IN  frame' = [frame EXCEPT ![t] =
           [Hand(Step(t, "release", "validate"), "validate", instance) EXCEPT
              !.exc = validate(instance, frame[t].schema, frame[t].cls)]]
  /\ UNCHANGED <<VALIDATION_LOCK, schema_cache, validator_cache, extended,
                 requested, touched, ncalls>>

\* Variant of release: an exception raised in the block is dropped and the
\* semantic checks run all the same.
release_continue(t) ==
  /\ frame[t].pc = "release"
  /\ VALIDATION_LOCK' = NoThread
  /\ frame' = [frame EXCEPT ![t] =
       [Step(t, "check", "release") EXCEPT !.exc = NoExc]]
  /\ UNCHANGED <<schema_cache, validator_cache, extended, requested, touched, ncalls>>

\* Variant of release: acquire() and release() calls in place of the with
\* block, so that an exception skips the release.
release_unless_raised(t) ==
  /\ frame[t].pc = "release"
  /\ VALIDATION_LOCK' = IF frame[t].exc # NoExc THEN VALIDATION_LOCK ELSE NoThread
  /\ LET f == Step(t, "check", "release")
     IN  frame' = [frame EXCEPT ![t] =
           IF f.exc # NoExc THEN Raise(f, f.exc) ELSE f]
  /\ UNCHANGED <<schema_cache, validator_cache, extended, requested, touched, ncalls>>

\* Variant of release: the lock is kept when the block is left.
release_skipped(t) ==
  /\ frame[t].pc = "release"
  /\ LET f == Step(t, "check", "release")
     IN  frame' = [frame EXCEPT ![t] =
           IF f.exc # NoExc THEN Raise(f, f.exc) ELSE f]
  /\ UNCHANGED <<VALIDATION_LOCK, schema_cache, validator_cache, extended,
                 requested, touched, ncalls>>

\* the with block is left, normally or by an exception: the lock is released
release(t) ==
  /\ frame[t].pc = "release"
  /\ VALIDATION_LOCK' = NoThread
  /\ LET f == Step(t, "check", "release")
     IN  frame' = [frame EXCEPT ![t] =
           IF f.exc # NoExc THEN Raise(f, f.exc) ELSE f]
  /\ UNCHANGED <<schema_cache, validator_cache, extended, requested, touched, ncalls>>

\* Variant of check: a failing check is remembered, the remaining checks run,
\* and the last failure is raised at the end.
check_collect(t) ==
  /\ frame[t].pc = "check"
  /\ LET k == Len(frame[t].invoked) + 1
         g == [Hand(frame[t], checks[k], frame[t].updated_config) EXCEPT
                 !.invoked = Append(@, checks[k])]
         f == IF check_raises(k, g.updated_config)
              THEN [g EXCEPT !.exc = SemanticCheckError(k)] ELSE g
     IN  frame' = [frame EXCEPT ![t] =
           IF k < NumChecks THEN f
           ELSE IF f.exc # NoExc THEN Raise(f, f.exc)
           ELSE [f EXCEPT !.pc = "done", !.result = Returned]]
  /\ UNCHANGED <<VALIDATION_LOCK, schema_cache, validator_cache, extended,
                 requested, touched, ncalls>>

\* Variant of check: a failing check only warns.
check_warn(t) ==
  /\ frame[t].pc = "check"
  /\ LET k == Len(frame[t].invoked) + 1
         f == [Hand(frame[t], checks[k], frame[t].updated_config) EXCEPT
                 !.invoked = Append(@, checks[k])]
     IN  frame' = [frame EXCEPT ![t] =
           IF k = NumChecks THEN [f EXCEPT !.pc = "done", !.result = Returned]
           ELSE f]
  /\ UNCHANGED <<VALIDATION_LOCK, schema_cache, validator_cache, extended,
                 requested, touched, ncalls>>

\* the next semantic check is called with updated_config
check(t) ==
  /\ frame[t].pc = "check"
  /\ LET k == Len(frame[t].invoked) + 1
         f == [Hand(frame[t], checks[k], frame[t].updated_config) EXCEPT
                 !.invoked = Append(@, checks[k])]
     IN  frame' = [frame EXCEPT ![t] =
           IF check_raises(k, f.updated_config) THEN Raise(f, SemanticCheckError(k))
           ELSE IF k = NumChecks THEN [f EXCEPT !.pc = "done", !.result = Returned]
           ELSE f]
  /\ UNCHANGED <<VALIDATION_LOCK, schema_cache, validator_cache, extended,
                 requested, touched, ncalls>>

\* the caller has its answer; the thread is free for another call
finish(t) ==
  /\ frame[t].pc = "done"
  /\ frame' = [frame EXCEPT ![t] = Idle]
  /\ UNCHANGED <<VALIDATION_LOCK, schema_cache, validator_cache, extended,
                 requested, touched, ncalls>>

(* --------------------------- specifications --------------------------- *)
\* the steps of a call that is under way
Run(t) ==
  \/ upgrade(t)
  \/ get_splitter(t)
  \/ splitter_validate(t)
  \/ acquire(t)
  \/ get_schema_wrapper(t)
  \/ get_schema_body(t)
  \/ get_schema_store(t)
  \/ get_validator_wrapper(t)
  \/ get_validator_body(t)
  \/ get_validator_store(t)
  \/ structural_validation(t)
  \/ release(t)
  \/ check(t)
  \/ finish(t)

\* threads validate documents concurrently
Next ==
  \E t \in Threads :
    \/ validate_config(t, ConcDocs)
    \/ Run(t)

Spec == Init /\ [][Next]_vars

\* one caller validates any document, one call after the other
NextSeq ==
  \/ validate_config(1, AllDocs)
  \/ Run(1)

SpecSeq == Init /\ [][NextSeq]_vars

\* threads call get_schema concurrently, in any of the three ways
NextCache ==
  \E t \in Threads :
    \/ get_schema_call(t)
    \/ get_schema_wrapper(t)
    \/ get_schema_body(t)
    \/ get_schema_store(t)
    \/ finish(t)

SpecCache == Init /\ [][NextCache]_vars

\* the steps of a call that is under way, its return to the caller left out
Steps(t) ==
  \/ upgrade(t)
  \/ get_splitter(t)
  \/ splitter_validate(t)
  \/ acquire(t)
  \/ get_schema_wrapper(t)
  \/ get_schema_body(t)
  \/ get_schema_store(t)
  \/ get_validator_wrapper(t)
  \/ get_validator_body(t)
  \/ get_validator_store(t)
  \/ structural_validation(t)
  \/ release(t)
  \/ check(t)

\* every thread makes one call, of get_validator itself or of
\* validate_config, and keeps its frame when the call is over
NextValidator ==
  \E t \in Threads :
    \/ get_validator_call(t)
    \/ validate_config(t, ConcDocs)
    \/ Steps(t)

SpecValidator == Init /\ [][NextValidator]_vars

\* the documents that pass every stage, of either registered model type
ValidDocs ==
  { Doc("current", Absent, "ok", "list", "list", {}),
    Doc("legacy", MODEL_GBM, "ok", "list", "tuple", {}) }

\* every thread validates one valid document, concurrently with the others;
\* a thread that can take a step of its call is not held back for ever (the
\* threads are scheduled fairly; a thread waiting for the lock can take no
\* step while it is held)
NextLive ==
  \E t \in Threads :
    \/ validate_config(t, ValidDocs)
    \/ Steps(t)

SpecLive == Init /\ [][NextLive]_vars /\ \A t \in Threads : WF_vars(Steps(t))

\* the link the cache holds after get_schema was called that way
Link(call) == [key |-> call, result |-> get_schema(bound_model_type(call))]

\* what earlier calls may have left in the caches when a call begins: nothing
\* (a new process); the schemas of both model types under the keys
\* validate_config uses, and the validator class (after calls of
\* validate_config); the schemas that direct calls of get_schema in other
\* signatures left, so that the keys of validate_config miss a full cache
WarmStates ==
  { [schemas |-> <<>>, validators |-> <<>>],
    [schemas |-> <<Link(CallKeyword(MODEL_GBM)), Link(CallKeyword(MODEL_ECD))>>,
     validators |-> <<[key |-> make_key(<<>>, <<>>), result |-> get_validator(1)]>>],
    [schemas |-> <<Link(CallDefault), Link(CallPositional(MODEL_GBM))>>,
     validators |-> <<>>] }

InitWarm ==
  /\ VALIDATION_LOCK = NoThread
  /\ \E w \in WarmStates :
       /\ schema_cache = w.schemas
       /\ validator_cache = w.validators
       /\ extended = Len(w.validators)
       /\ touched = [i \in DOMAIN w.schemas |-> w.schemas[i].key]
       /\ requested = IF w.schemas = <<>> THEN <<>>
                      ELSE Request(Request(<<>>, bound_model_type(w.schemas[1].key)),
                                   bound_model_type(w.schemas[2].key))
  /\ frame = [t \in Threads |-> Idle]
  /\ ncalls = 0

\* threads validate documents concurrently in a process whose caches earlier
\* calls have filled or not
SpecWarm == InitWarm /\ [][Next]_vars

\* the ways of calling get_schema for the default model type
RaceCalls == { call \in SchemaCalls : bound_model_type(call) = MODEL_ECD }

\* a caller asks get_schema for the schema of the default model type
get_schema_race(t) ==
  /\ frame[t].pc = "idle"
  /\ ncalls < NumCallers
  /\ \E call \in RaceCalls :
       frame' = [frame EXCEPT ![t] =
                   [Idle EXCEPT !.pc = "get_schema", !.op = "get_schema",
                                !.call = call]]
  /\ ncalls' = ncalls + 1
  /\ UNCHANGED <<VALIDATION_LOCK, schema_cache, validator_cache, extended, requested, touched>>

InitRace ==
  /\ VALIDATION_LOCK = NoThread
  /\ schema_cache = <<>>
  /\ validator_cache = <<>>
  /\ extended = 0
  /\ frame = [t \in Callers |-> Idle]
  /\ requested = <<>>
  /\ touched = <<>>
  /\ ncalls = 0

\* every caller calls get_schema once for the same model type, the cache
\* being empty at first, and keeps its frame when the call is over
NextRace ==
  \E t \in Callers :
    \/ get_schema_race(t)
    \/ get_schema_wrapper(t)
    \/ get_schema_body(t)
    \/ get_schema_store(t)

SpecRace == InitRace /\ [][NextRace]_vars

(* ------------------------------ properties ---------------------------- *)
Events(log) == { log[i] : i \in DOMAIN log }

\* the first position of an event of the set in the log, 0 when there is none
First(log, events) ==
  IF \E i \in DOMAIN log : log[i] \in events
  THEN CHOOSE i \in DOMAIN log :
         /\ log[i] \in events
         /\ \A j \in 1..(i - 1) : log[j] \notin events
  ELSE 0

InValidateConfig(t) == frame[t].op = "validate_config"

\* the thread is executing validate(instance, schema, cls)
Validating(t) == InValidateConfig(t) /\ frame[t].pc = "validate"

SchemaEvents ==
  {"schema.hit", "schema.miss", "schema.build", "schema.store",
   "schema.evict", "schema.present"}
ValidatorEvents == {"validator.hit", "validator.miss", "extend", "validator.store"}

\* the program counters of the with block of validate_config
GuardedPcs ==
  {"get_schema", "get_schema.body", "get_schema.store",
   "get_validator", "get_validator.body", "get_validator.store",
   "validate", "release"}

\* the program counters of the stages outside the with block
UpgradePcs == {"upgrade"}
SplitPcs == {"get_splitter", "splitter.validate"}
CheckPcs == {"check"}

\* C1: at most one thread at a time executes the structural validation
\* call, and a thread that executes it holds VALIDATION_LOCK.
C1_MutualExclusion ==
  /\ \A t \in Threads : Validating(t) => VALIDATION_LOCK = t
  /\ \A t, u \in Threads : Validating(t) /\ Validating(u) => t = u

\* one thread validates while another waits at the with statement
C1_Witness ==
  \E t, u \in Threads :
    /\ t # u
    /\ Validating(t)
    /\ VALIDATION_LOCK = t
    /\ frame[u].pc = "acquire"

\* C2: a call that has left the with block, normally or by an exception
\* (ValidationError, SchemaAssemblyError), does not hold VALIDATION_LOCK;
\* when no call is inside the block the lock is free.
C2_ReleasedOnEveryExit ==
  /\ \A t \in Threads :
       /\ InValidateConfig(t)
       /\ "acquire" \in Events(frame[t].log)
       /\ frame[t].pc \in {"check", "done"}
       => /\ VALIDATION_LOCK # t
          /\ "release" \in Events(frame[t].log)
  /\ (\A t \in Threads : frame[t].pc \notin GuardedPcs) => VALIDATION_LOCK = NoThread

\* a document was rejected by structural validation, another for its
\* unregistered model type, and the lock is free
C2_Witness ==
  \E t, u \in Threads :
    /\ frame[t].pc = "done" /\ frame[t].result = Exc("ValidationError")
    /\ frame[u].pc = "done" /\ frame[u].result = Exc("SchemaAssemblyError")
    /\ VALIDATION_LOCK = NoThread

\* C3: a thread in the upgrade stage, in split validation or in a semantic
\* check does not hold VALIDATION_LOCK.
C3_PipelineNotSerialized ==
  \A t \in Threads :
    InValidateConfig(t) /\ frame[t].pc \in UpgradePcs \cup SplitPcs \cup CheckPcs
    => VALIDATION_LOCK # t

\* one thread is inside structural validation while another runs its
\* semantic checks
C3_Witness ==
  \E t, u \in Threads :
    /\ Validating(t)
    /\ VALIDATION_LOCK = t
    /\ InValidateConfig(u)
    /\ frame[u].pc \in CheckPcs
    /\ Len(frame[u].invoked) > 0

\* C4, as claimed: get_schema and get_validator are completed before
\* VALIDATION_LOCK is acquired, and the structural validate call is the only
\* work done while the lock is held.
C4_AsClaimed ==
  \A t \in Threads :
    InValidateConfig(t) =>
      /\ (VALIDATION_LOCK = t => frame[t].pc \in {"validate", "release"})
      /\ \A i \in DOMAIN frame[t].log :
           frame[t].log[i] \in SchemaEvents \cup ValidatorEvents
           => \/ First(frame[t].log, {"acquire"}) = 0
              \/ i < First(frame[t].log, {"acquire"})

\* C4, amended: the lock is acquired first; get_schema(model_type=...),
\* get_validator() and the validate call run, in this order, while it is
\* held; no other stage runs while it is held.
C4_GuardedBlock ==
  \A t \in Threads :
    InValidateConfig(t) =>
      LET log == frame[t].log
          acquired == First(log, {"acquire"})
          released == First(log, {"release"})
          Guarded(i) == /\ acquired > 0
                        /\ acquired < i
                        /\ (released = 0 \/ i < released)
      IN  /\ (VALIDATION_LOCK = t <=> frame[t].pc \in GuardedPcs)
          /\ \A i \in DOMAIN log :
               /\ log[i] \in SchemaEvents \cup ValidatorEvents \cup {"validate"}
                  => Guarded(i)
               /\ log[i] \in {"upgrade", "get_splitter", "splitter.validate"}
                  => ~Guarded(i)
          /\ \A i, j \in DOMAIN log :
               /\ log[i] \in SchemaEvents /\ log[j] \in ValidatorEvents => i < j
               /\ log[i] \in ValidatorEvents /\ log[j] = "validate" => i < j
          /\ (frame[t].pc \in CheckPcs => released > 0)

\* a thread holds the lock while it builds the schema
C4_Witness ==
  \E t \in Threads :
    /\ InValidateConfig(t)
    /\ VALIDATION_LOCK = t
    /\ frame[t].pc = "get_schema.body"

(* ------------- properties of one call of validate_config -------------- *)
\* the call of validate_config of thread t is over
Finished(t) == InValidateConfig(t) /\ frame[t].pc = "done"

Upgraded(config) == upgrade_config_dict_to_latest_version(config)

Discriminator(doc) == IF has_key(doc, MODEL_TYPE) THEN doc[MODEL_TYPE] ELSE MODEL_ECD

SplitFails(doc) == get_splitter_raises(doc) \/ splitter_validate_raises(doc)

\* the document does not conform to the composite schema of its model type
StructuralViolation(doc) ==
  /\ ~get_schema_raises(Discriminator(doc))
  /\ validate_errors(doc, get_schema(Discriminator(doc)), get_validator(1)) # {}

SemanticViolation(doc) == doc.sem # {}

Min(S) == CHOOSE k \in S : \A j \in S : k <= j

\* the outcome of the first stage that fails, Returned when none does
FirstFailure(config) ==
  IF upgrade_raises(config) THEN Exc("UpgradeError")
  ELSE LET doc == Upgraded(config)
       IN  IF SplitFails(doc) THEN Exc("SplitConfigError")
           ELSE IF get_schema_raises(Discriminator(doc)) THEN Exc("SchemaAssemblyError")
           ELSE IF StructuralViolation(doc) THEN Exc("ValidationError")
           ELSE IF SemanticViolation(doc) THEN SemanticCheckError(Min(doc.sem))
           ELSE Returned

GuardedEvents ==
  {"acquire", "validate", "release"} \cup SchemaEvents \cup ValidatorEvents

\* C5: a document that upgrades, whose split configuration is valid and
\* that has both a structural and a semantic violation is rejected with the
\* structural ValidationError, and no semantic check is invoked.
C5_StructuralFirst ==
  \A t \in Threads :
    /\ Finished(t)
    /\ ~upgrade_raises(frame[t].config)
    /\ ~SplitFails(Upgraded(frame[t].config))
    /\ StructuralViolation(Upgraded(frame[t].config))
    /\ SemanticViolation(Upgraded(frame[t].config))
    => /\ frame[t].result = Exc("ValidationError")
       /\ frame[t].invoked = <<>>

\* a legacy document without output_features that also breaks the rules of
\* checks 2 and 3 has been rejected
C5_Witness ==
  \E t \in Threads :
    /\ Finished(t)
    /\ frame[t].config = Doc("legacy", MODEL_GBM, "ok", "list", Absent, {2, 3})
    /\ frame[t].result = Exc("ValidationError")

\* C6: the checks are invoked in the order of the list, each once; every
\* check before the last invoked one returned; the call ends with the error
\* of the first check that raises, right after that check; only when none
\* raises are all 16 invoked.
C6_FailFastInOrder ==
  \A t \in Threads :
    InValidateConfig(t) =>
      LET invoked == frame[t].invoked
          n == Len(invoked)
          doc == frame[t].updated_config
      IN  /\ invoked = SubSeq(checks, 1, n)
          /\ \A i \in 1..(n - 1) : ~check_raises(i, doc)
          /\ frame[t].pc = "check" => \A i \in 1..n : ~check_raises(i, doc)
          /\ frame[t].pc = "done" /\ n > 0 =>
               IF check_raises(n, doc)
               THEN frame[t].result = SemanticCheckError(n)
               ELSE n = NumChecks /\ frame[t].result = Returned
          /\ frame[t].result.kind = "SemanticCheckError" =>
               /\ frame[t].pc = "done"
               /\ frame[t].result.check = n
               /\ n = Min(doc.sem)

\* a document breaking the rules of checks 5 and 12 was rejected by check 5
\* after checks 1 to 4 returned
C6_Witness ==
  \E t \in Threads :
    /\ Finished(t)
    /\ frame[t].updated_config.sem = {5, 12}
    /\ frame[t].result = SemanticCheckError(5)
    /\ frame[t].invoked = SubSeq(checks, 1, 5)

\* C7: the call returns normally exactly when no stage fails, and then
\* every stage ran and all 16 checks were invoked; otherwise it raises the
\* one error of the first stage that fails.
C7_NoPartialAcceptance ==
  \A t \in Threads :
    Finished(t) =>
      /\ frame[t].result = FirstFailure(frame[t].config)
      /\ frame[t].result = Returned <=>
           /\ frame[t].exc = NoExc
           /\ frame[t].invoked = checks
           /\ {"upgrade", "get_splitter", "splitter.validate", "acquire",
               "validate", "release"} \subseteq Events(frame[t].log)
      /\ frame[t].result # Returned => frame[t].result = frame[t].exc

\* a document was accepted
C7_Witness ==
  \E t \in Threads :
    /\ Finished(t)
    /\ frame[t].result = Returned
    /\ frame[t].invoked = checks

\* C8: when get_splitter or splitter.validate raises, the call ends with
\* that error; the lock was not acquired, get_schema, get_validator and
\* validate were not called and no semantic check was invoked.
C8_SplitFailureFirst ==
  \A t \in Threads :
    /\ Finished(t)
    /\ ~upgrade_raises(frame[t].config)
    /\ SplitFails(Upgraded(frame[t].config))
    => /\ frame[t].result = Exc("SplitConfigError")
       /\ Events(frame[t].log) \cap GuardedEvents = {}
       /\ frame[t].invoked = <<>>

\* a document with invalid split parameters, no output_features and a
\* semantic violation was rejected for its split configuration
C8_Witness ==
  \E t \in Threads :
    /\ Finished(t)
    /\ frame[t].config = Doc("current", MODEL_ECD, "bad_params", "list", Absent, {1})
    /\ frame[t].result = Exc("SplitConfigError")
    /\ frame[t].log = <<"upgrade", "get_splitter", "splitter.validate">>

\* C9: when the upgrade raises, the call ends with that error and nothing
\* else has run: no splitter, no lock, no cache lookup, no check.
C9_UpgradeFailureStops ==
  \A t \in Threads :
    Finished(t) /\ upgrade_raises(frame[t].config)
    => /\ frame[t].result = Exc("UpgradeError")
       /\ frame[t].log = <<"upgrade">>
       /\ frame[t].invoked = <<>>
       /\ frame[t].seen = {}
       /\ VALIDATION_LOCK # t

\* a malformed document that has every other defect too was rejected by
\* the upgrade
C9_Witness ==
  \E t \in Threads :
    /\ Finished(t)
    /\ frame[t].config = Doc("malformed", "unknown", "unknown_type", Absent, "str", {1})
    /\ frame[t].result = Exc("UpgradeError")

(* ------------------- properties of get_schema's cache ----------------- *)
\* no call is under way
Quiescent == \A t \in Threads : frame[t].pc \in {"idle", "done"}

CachedKeys == [i \in DOMAIN schema_cache |-> schema_cache[i].key]

CachedModelTypes == { bound_model_type(k) : k \in cache_keys(schema_cache) }

\* the thread's call of get_schema has looked its key up
LookedUp(t) == Events(frame[t].log) \cap {"schema.hit", "schema.miss"} # {}

\* C10, as claimed: at most 2 entries; when no call is under way they are
\* the entries of the two registered model types asked for last; a call for
\* a model type that is cached runs no fragment provider.
C10_AsClaimed ==
  /\ Len(schema_cache) <= maxsize
  /\ Quiescent => CachedModelTypes = Events(requested)
  /\ \A t \in Threads :
       (\E k \in frame[t].seen : bound_model_type(k) = bound_model_type(frame[t].call))
       => "schema.build" \notin Events(frame[t].log)

\* C10, amended: at most 2 entries, of distinct keys, a key being the
\* argument signature of the call; they are the two keys used last (hit or
\* stored), the least recently used first; a call whose key is cached, and
\* no other, hits: it runs no fragment provider and has the memoized schema.
C10_BoundedLru ==
  /\ Len(schema_cache) <= maxsize
  /\ Cardinality(cache_keys(schema_cache)) = Len(schema_cache)
  /\ Len(schema_cache) = IF Len(touched) < maxsize THEN Len(touched) ELSE maxsize
  /\ CachedKeys = SubSeq(touched, Len(touched) - Len(schema_cache) + 1, Len(touched))
  /\ \A t \in Threads :
       LookedUp(t) =>
         /\ frame[t].call \in frame[t].seen <=> "schema.hit" \in Events(frame[t].log)
         /\ "schema.hit" \in Events(frame[t].log) =>
              /\ "schema.build" \notin Events(frame[t].log)
              /\ frame[t].schema = get_schema(bound_model_type(frame[t].call))

\* a call has stored the schema of a third key in the full cache, and its
\* key is the most recently used one
C10_Witness ==
  \E t \in Threads :
    /\ frame[t].pc = "done"
    /\ frame[t].log = <<"schema.miss", "schema.build", "schema.evict">>
    /\ Len(schema_cache) = maxsize
    /\ schema_cache[maxsize].key = frame[t].call

(* --------------------- what get_schema returns ------------------------ *)
\* the thread's direct call of get_schema returned a schema
SchemaReturned(t) ==
  /\ frame[t].op = "get_schema"
  /\ frame[t].pc = "done"
  /\ frame[t].result = Returned

\* C11: whatever calls came before (hits, misses, stores, evictions and
\* rebuilds), the schema a call of get_schema returns, and every schema in
\* the cache, equals the schema a fresh build for the model type of the call
\* makes; its properties have exactly the eight top-level keys, whatever the
\* model type, and its required list is [input_features, output_features].
C11_CacheCorrect ==
  /\ \A t \in Threads :
       SchemaReturned(t) =>
         /\ frame[t].schema = get_schema(bound_model_type(frame[t].call))
         /\ DOMAIN frame[t].schema.properties =
              {"model_type", "input_features", "output_features", "combiner",
               "trainer", "preprocessing", "hyperopt", "defaults"}
         /\ Cardinality(DOMAIN frame[t].schema.properties) = 8
         /\ frame[t].schema.required = <<"input_features", "output_features">>
  /\ \A i \in DOMAIN schema_cache :
       schema_cache[i].result = get_schema(bound_model_type(schema_cache[i].key))

\* a call for gbm was answered from a full cache, whose other entry is a
\* schema of ecd
C11_Witness ==
  \E t \in Threads :
    /\ SchemaReturned(t)
    /\ frame[t].log = <<"schema.hit">>
    /\ bound_model_type(frame[t].call) = MODEL_GBM
    /\ frame[t].schema = get_schema(MODEL_GBM)
    /\ Len(schema_cache) = maxsize
    /\ bound_model_type(schema_cache[1].key) = MODEL_ECD

(* ------------------ get_schema of an unknown model type --------------- *)
\* the thread's direct call of get_schema is for a model type that has no
\* trainer schema
UnknownModelType(t) ==
  /\ frame[t].op = "get_schema"
  /\ bound_model_type(frame[t].call) \notin {"ecd", "gbm"}

\* C15: a call of get_schema for a model type that is not registered never
\* has a schema and ends with the schema assembly error; no schema is ever
\* cached under a key of such a model type.
C15_UnknownRejected ==
  /\ \A t \in Threads :
       UnknownModelType(t) =>
         /\ frame[t].schema = NoSchema
         /\ frame[t].pc = "done" => frame[t].result = Exc("SchemaAssemblyError")
  /\ \A i \in DOMAIN schema_cache :
       bound_model_type(schema_cache[i].key) \in {"ecd", "gbm"}

\* a call for an unknown model type has failed in its build while the cache
\* was full of the schemas of other calls
C15_Witness ==
  \E t \in Threads :
    /\ UnknownModelType(t)
    /\ frame[t].pc = "done"
    /\ frame[t].result = Exc("SchemaAssemblyError")
    /\ "schema.build" \in Events(frame[t].log)
    /\ Len(schema_cache) = maxsize

(* ------------------------- a build that fails ------------------------- *)
\* the thread's call of get_schema has raised in its build
BuildFailed(t) ==
  /\ frame[t].op = "get_schema"
  /\ frame[t].pc = "done"
  /\ frame[t].result = Exc("SchemaAssemblyError")

\* C20: the step in which a build raises leaves the cache as it is (nothing
\* stored, nothing evicted), and the call ends there, with no store; a key
\* whose build fails is never cached, so every later call with it misses and
\* runs the build again.
C20_FailedBuildKeepsCache ==
  /\ [](\A t \in Threads :
          /\ BuildFailed(t) =>
               /\ frame[t].log = <<"schema.miss", "schema.build">>
               /\ frame[t].call \notin cache_keys(schema_cache)
          /\ (LookedUp(t) /\ get_schema_raises(bound_model_type(frame[t].call))) =>
               /\ frame[t].log[1] = "schema.miss"
               /\ frame[t].pc # "get_schema.store")
  /\ [][\A t \in Threads :
          (frame[t].pc = "get_schema.body" /\ BuildFailed(t)')
          => schema_cache' = schema_cache]_vars

\* two calls with the same key have failed in their builds, and the entry
\* that was cached is still there
C20_Witness ==
  \E t, u \in Threads :
    /\ t # u
    /\ BuildFailed(t)
    /\ BuildFailed(u)
    /\ frame[t].call = frame[u].call
    /\ schema_cache # <<>>

(* ----------------------- the array type of the validator -------------- *)
\* the Python types of the values a document may hold under a key
PyTypes == {"list", "tuple", "str", "dict"}

\* the thread has just run validate(...) inside the with block
Validated(t) ==
  /\ InValidateConfig(t)
  /\ frame[t].pc = "release"
  /\ "validate" \in Events(frame[t].log)

\* C19: for the class get_validator returns, an instance is of the type
\* "array" if and only if it is a list or a tuple; validate(...) passes a
\* document if and only if its input_features and output_features are there
\* and each is a list or a tuple, a tuple passing wherever a list passes.
C19_ArrayIsListOrTuple ==
  \A t \in Threads :
    /\ frame[t].cls # NoValidator =>
         \A x \in PyTypes :
           is_type(frame[t].cls, x, "array") <=> x \in {"list", "tuple"}
    /\ Validated(t) =>
         (frame[t].exc = NoExc <=>
            /\ frame[t].updated_config.input_features \in {"list", "tuple"}
            /\ frame[t].updated_config.output_features \in {"list", "tuple"})

\* validate(...) has passed a document whose output_features is a tuple
C19_Witness ==
  \E t \in Threads :
    /\ Validated(t)
    /\ frame[t].updated_config.output_features = "tuple"
    /\ frame[t].updated_config.input_features = "list"
    /\ frame[t].cls = get_validator(1)
    /\ frame[t].exc = NoExc

(* ------------------- the documents validate_config uses --------------- *)
\* the documents the stage of that name has been given by the thread's call
HandedTo(t, stage) == { h[2] : h \in { g \in frame[t].handed : g[1] = stage } }

\* the stages that are given the upgraded document
LaterStages ==
  {"model_type", "get_splitter", "splitter.validate", "validate"} \cup Events(checks)

\* C16: all through a call of validate_config, and when it has ended, the
\* caller's document is what it was when the call began; the upgrader alone
\* is given it, and the lookup of the model type, the split stage, validate
\* and every semantic check are given the document the upgrader returned.
C16_CallerDocumentUntouched ==
  \A t \in Threads :
    InValidateConfig(t) =>
      /\ frame[t].config = frame[t].original
      /\ HandedTo(t, "upgrade") \subseteq {frame[t].original}
      /\ \A stage \in LaterStages :
           HandedTo(t, stage) \subseteq
             {frame[t].updated_config} \cap {Upgraded(frame[t].original)}
      /\ { h[1] : h \in frame[t].handed } \subseteq LaterStages \cup {"upgrade"}
      /\ (Finished(t) /\ frame[t].result = Returned) =>
           { h[1] : h \in frame[t].handed } = LaterStages \cup {"upgrade"}

\* a legacy document was accepted: every stage after the upgrade was given
\* its upgraded form, and the caller still has the legacy document
C16_Witness ==
  \E t \in Threads :
    /\ Finished(t)
    /\ frame[t].result = Returned
    /\ frame[t].config.version = "legacy"
    /\ frame[t].config = frame[t].original
    /\ HandedTo(t, "upgrade") = {frame[t].config}
    /\ HandedTo(t, "validate") = {[frame[t].config EXCEPT !.version = "current"]}
    /\ HandedTo(t, checks[NumChecks]) = {[frame[t].config EXCEPT !.version = "current"]}

\* C17: the model type of a call is the value under model_type of the
\* upgraded document, MODEL_ECD when it has no such key; get_schema is
\* called with exactly that value, and validate(...) is given the schema of
\* that model type.
C17_SchemaOfUpgradedDiscriminator ==
  \A t \in Threads :
    (InValidateConfig(t) /\ frame[t].updated_config # NoDoc) =>
      /\ HandedTo(t, "model_type") = {Upgraded(frame[t].original)}
      /\ frame[t].model_type =
           IF frame[t].updated_config.model_type = Absent THEN "ecd"
           ELSE frame[t].updated_config.model_type
      /\ "acquire" \in Events(frame[t].log) =>
           /\ frame[t].call.kwds = <<"model_type", frame[t].model_type>>
           /\ frame[t].call.args = <<>>
      /\ "validate" \in Events(frame[t].log) =>
           frame[t].schema = get_schema(frame[t].model_type)

\* a legacy document without model_type has been validated against the
\* schema of ecd, one for gbm was in the cache
C17_Witness ==
  \E t \in Threads :
    /\ Validated(t)
    /\ frame[t].original.version = "legacy"
    /\ frame[t].original.model_type = Absent
    /\ frame[t].call = CallKeyword(MODEL_ECD)
    /\ frame[t].schema = get_schema(MODEL_ECD)
    /\ \E i \in DOMAIN schema_cache : schema_cache[i].key = CallKeyword(MODEL_GBM)

(* ------------------------ the validator class ------------------------- *)
\* the threads that called get_validator themselves, outside VALIDATION_LOCK
DirectCallers == { t \in Threads : frame[t].op = "get_validator" }

\* the classes the calls so far have got
ClassesReturned == { frame[t].cls : t \in Threads } \ {NoValidator}

\* C12, as claimed: extend(...) has made at most one class, and all calls
\* have the same class.
C12_AsClaimed ==
  /\ extended <= 1
  /\ Cardinality(ClassesReturned) <= 1

\* C12, amended: the cache holds at most one class, one that extend made,
\* and a call that finds it there returns it.  The calls made through
\* validate_config, one at a time under VALIDATION_LOCK, make at most one
\* class between them; each direct caller may make one more, so that without
\* direct callers there is at most one class and every call has it.
C12_MemoizedValidator ==
  /\ Len(validator_cache) <= 1
  /\ \A i \in DOMAIN validator_cache :
       /\ validator_cache[i].key = make_key(<<>>, <<>>)
       /\ validator_cache[i].result \in { get_validator(n) : n \in 1..extended }
  /\ extended <= 1 + Cardinality(DirectCallers)
  /\ \A t \in Threads :
       "validator.hit" \in Events(frame[t].log) =>
         /\ validator_cache # <<>>
         /\ frame[t].cls = validator_cache[1].result
         /\ "extend" \notin Events(frame[t].log)
  /\ DirectCallers = {} =>
       /\ extended <= 1
       /\ ClassesReturned \subseteq {get_validator(1)}

\* two direct callers found the cache empty: each made a class and returned
\* its own, one of the two is cached
C12_Witness ==
  \E t, u \in DirectCallers :
    /\ frame[t].pc = "done"
    /\ frame[u].pc = "done"
    /\ frame[t].cls # frame[u].cls
    /\ extended = 2
    /\ Len(validator_cache) = 1
    /\ validator_cache[1].result = frame[u].cls

(* ------------------- concurrent calls on valid documents -------------- *)
\* C13: when threads validate valid documents concurrently and are
\* scheduled fairly, there comes a time from which every call that has
\* begun is at its end (no thread waits for VALIDATION_LOCK for ever, a
\* call that is over stays over), and every call that ends has accepted its
\* document, whatever the other threads did meanwhile.
C13_AllTerminateAccepted ==
  /\ [](\A t \in Threads : Finished(t) => frame[t].result = Returned)
  /\ <>[](\A t \in Threads : InValidateConfig(t) => Finished(t))

\* two threads have validated documents of the two model types and both
\* accepted; the second found the validator class in the cache
C13_Witness ==
  \E t, u \in Threads :
    /\ t # u
    /\ Finished(t) /\ frame[t].result = Returned
    /\ Finished(u) /\ frame[u].result = Returned
    /\ frame[t].model_type = MODEL_ECD
    /\ frame[u].model_type = MODEL_GBM
    /\ "extend" \in Events(frame[t].log)
    /\ "validator.hit" \in Events(frame[u].log)

(* ------------------------------ determinism --------------------------- *)
\* C14: the outcome of a call of validate_config, accepted or the exception
\* of the stage that failed, is a function of its document alone: it is the
\* outcome of the first failing stage, whatever the caches held when the
\* call began and whatever other calls did meanwhile; so any two calls with
\* the same document have the same outcome.
C14_Deterministic ==
  /\ \A t \in Threads :
       Finished(t) => frame[t].result = FirstFailure(frame[t].original)
  /\ \A t, u \in Threads :
       (Finished(t) /\ Finished(u) /\ frame[t].original = frame[u].original)
       => frame[t].result = frame[u].result

\* two calls with the same document were both rejected by validate(...):
\* one missed a full cache and evicted an entry, the other hit
C14_Witness ==
  \E t, u \in Threads :
    /\ Finished(t)
    /\ Finished(u)
    /\ frame[t].original = frame[u].original
    /\ "schema.evict" \in Events(frame[t].log)
    /\ "schema.hit" \in Events(frame[u].log)
    /\ frame[t].result = Exc("ValidationError")
    /\ frame[u].result = Exc("ValidationError")

(* ------------------ get_schema called at the same time ---------------- *)
\* the callers whose call has run the fragment providers
Builders == { t \in Callers : "schema.build" \in Events(frame[t].log) }

\* the callers that have called
Called == { t \in Callers : frame[t].op = "get_schema" }

\* every call that began is over
RaceOver == \A t \in Called : frame[t].pc = "done"

\* all calls were made with the same argument signature
OneSignature == \A t, u \in Called : frame[t].call = frame[u].call

\* the entries of the cache for the model type the callers ask for
EntriesOfModelType ==
  { i \in DOMAIN schema_cache : bound_model_type(schema_cache[i].key) = MODEL_ECD }

\* C18, as claimed, for callers that all call get_schema the same way: when
\* their calls are over they all have the same schema, the cache has exactly
\* one entry for the model type, and the fragment providers ran at most
\* twice.
C18_AsClaimed ==
  (RaceOver /\ OneSignature /\ Called # {}) =>
    /\ \A t, u \in Called : frame[t].schema = frame[u].schema
    /\ Cardinality(EntriesOfModelType) = 1
    /\ Cardinality(Builders) <= 2

\* C18, amended: all callers get the schema of a fresh build; the cache
\* never has two entries of one key, and when the calls are over it has one
\* entry for each signature used (the two stored last when three were
\* used), so exactly one if all callers called the same way; a caller runs
\* the fragment providers if and only if its key was not cached when it
\* looked it up, so there may be as many builds as there are callers.
C18_RaceIdempotent ==
  /\ \A t \in Called :
       frame[t].pc = "done" => frame[t].schema = get_schema(MODEL_ECD)
  /\ \A i \in DOMAIN schema_cache : schema_cache[i].result = get_schema(MODEL_ECD)
  /\ Cardinality(cache_keys(schema_cache)) = Len(schema_cache)
  /\ cache_keys(schema_cache) \subseteq { frame[t].call : t \in Called }
  /\ RaceOver =>
       Len(schema_cache) =
         IF Cardinality({ frame[t].call : t \in Called }) < maxsize
         THEN Cardinality({ frame[t].call : t \in Called }) ELSE maxsize
  /\ \A t \in Called :
       frame[t].pc \in {"get_schema.store", "done"} =>
         (t \in Builders <=> frame[t].call \notin frame[t].seen)
  /\ Cardinality(Builders) <= Cardinality(Called)

\* three callers asked for the schema the same way while the cache was
\* empty: each of them ran the fragment providers, one entry is cached
C18_Witness ==
  /\ RaceOver
  /\ OneSignature
  /\ Cardinality(Called) = 3
  /\ Builders = Called
  /\ Len(schema_cache) = 1
  /\ \A t \in Called : frame[t].schema = schema_cache[1].result
====
